---- MODULE Spec2Model ----
(***************************************************************************)
(* Model of scripts/forge_iterator_script.py: the ForgeIteratorScript      *)
(* lifecycle callbacks (setup, process, process_batch, postprocess_image,  *)
(* postprocess) acting on the host's processing object p, the host's       *)
(* checkpoint registry and the host's shared state.                        *)
(*                                                                         *)
(* Strings that the code inspects character by character (checkpoint names *)
(* and the folder) are sequences of character codes; strings that are only *)
(* compared for equality (titles, attribute names) are TLA+ strings.       *)
(* A Python object is a function from attribute names to values, so that   *)
(* hasattr(p, a) is  a \in DOMAIN p.                                       *)
(***************************************************************************)
EXTENDS Integers, Sequences, FiniteSets, TLC

VARIABLES
    checkpoints_list,   \* modules.sd_models.checkpoints_list, in dict order
    args,               \* the script arguments [enabled, folder, quantity]
    p,                  \* the processing object: attribute name -> value
    sd_model,           \* shared.sd_model: the loaded checkpoint, or None
    opts_data,          \* shared.opts.data
    current_image,      \* shared.state's current image (live preview)
    processed,          \* the Processed object last given to postprocess
    phase,              \* where the host is in p's lifecycle
    last,               \* what the last callback did (observation)
    hist                \* history of the run (observation)

vars == <<checkpoints_list, args, p, sd_model, opts_data, current_image,
          processed, phase, last, hist>>

----------------------------------------------------------------------------
(* Bounds of the model. *)

\* active process_batch calls per processing object
MaxCalls == 4
\* largest batch_number the host passes
MaxBatchNumber == 1
\* largest value of the quantity slider explored
MaxQuantity == 2
\* images passed to postprocess_image per processing object
MaxImages == 2
\* rescans of the model directory while the processing object lives
MaxRescans == 1

----------------------------------------------------------------------------
(* Character codes and the checkpoints of the host's registry. *)

Slash == 47
Backslash == 92

None == "None"

\* CheckpointInfo objects are "ck_Am", "ck_Ak", "ck_Ac", "ck_Bm", "ck_ABm", "ck_m".

\* CheckpointInfo.name: the path relative to the model directory
CkptName(c) ==
    CASE c = "ck_Am"  -> <<65, Slash, 109>>          \* "A/m"
      [] c = "ck_Ak"  -> <<65, Backslash, 107>>      \* "A\k"
      [] c = "ck_Ac"  -> <<65, Slash, 99>>           \* "A/c"
      [] c = "ck_Bm"  -> <<66, Slash, 109>>          \* "B/m"
      [] c = "ck_ABm" -> <<65, 66, Slash, 109>>      \* "AB/m"
      [] c = "ck_m"   -> <<109>>                     \* "m"

\* CheckpointInfo.title: the key of the registry, unique per checkpoint
CkptTitle(c) ==
    CASE c = "ck_Am"  -> "A/m [h1]"
      [] c = "ck_Ak"  -> "A\\k [h2]"
      [] c = "ck_Ac"  -> "A/c [h3]"
      [] c = "ck_Bm"  -> "B/m [h4]"
      [] c = "ck_ABm" -> "AB/m [h5]"
      [] c = "ck_m"   -> "m [h6]"

\* the registries the host may hold (list_models rescans the disk)
Registries ==
    { <<"ck_Bm", "ck_Am", "ck_Ak">>,
      <<"ck_Ak", "ck_m", "ck_Ac", "ck_Am">>,
      <<"ck_m", "ck_ABm">> }

\* the values of the folder dropdown: "", "A", "B"
Folders == { <<>>, <<65>>, <<66>> }

----------------------------------------------------------------------------
(* Python helpers. *)

HasAttr(o, a) == a \in DOMAIN o

SetAttr(o, a, v) == [x \in DOMAIN o \cup {a} |-> IF x = a THEN v ELSE o[x]]

EmptyDict == [x \in {} |-> None]

\* str.replace('\\', '/')
NormalizeSlashes(name) ==
    [i \in 1..Len(name) |-> IF name[i] = Backslash THEN Slash ELSE name[i]]

\* str.startswith
StartsWith(s, prefix) ==
    /\ Len(prefix) <= Len(s)
    /\ SubSeq(s, 1, Len(prefix)) = prefix

\* s < t for Python strings (lexicographic on code points)
RECURSIVE StrLess(_, _)
StrLess(s, t) ==
    IF t = <<>> THEN FALSE
    ELSE IF s = <<>> THEN TRUE
    ELSE IF Head(s) # Head(t) THEN Head(s) < Head(t)
    ELSE StrLess(Tail(s), Tail(t))

\* one step of the stable sort by name: x goes after every element that is
\* not greater than it
RECURSIVE InsertByName(_, _)
InsertByName(sorted, x) ==
    IF sorted = <<>> THEN <<x>>
    ELSE IF StrLess(CkptName(x), CkptName(Head(sorted)))
         THEN <<x>> \o sorted
         ELSE <<Head(sorted)>> \o InsertByName(Tail(sorted), x)

\* list.sort(key=lambda x: x.name)
RECURSIVE SortByName(_)
SortByName(list) ==
    IF list = <<>> THEN <<>>
    ELSE InsertByName(SortByName(SubSeq(list, 1, Len(list) - 1)), list[Len(list)])

\* the test of line 68
InFolder(c, folder) ==
    StartsWith(NormalizeSlashes(CkptName(c)), folder \o <<Slash>>)

\* _get_checkpoints_in_folder
GetCheckpointsInFolder(folder) ==
    SortByName(SelectSeq(checkpoints_list, LAMBDA c : InFolder(c, folder)))

----------------------------------------------------------------------------
(* The host's model loader. *)

\* reload_model_weights / forge_model_reload either loads the checkpoint, or
\* raises leaving the loaded model in place, or raises leaving no model
ReloadOutcomes == {"ok", "raise_keep", "raise_none"}

\* shared.sd_model after a reload of checkpoint info that ended with outcome
Reload(model, info, outcome) ==
    CASE outcome = "ok"         -> info
      [] outcome = "raise_keep" -> model
      [] outcome = "raise_none" -> None

\* p.sd_model: the host defines it as a property that reads shared.sd_model,
\* so the assignments of lines 162 and 175 store nothing of their own
PSdModel(shared_model) == shared_model

----------------------------------------------------------------------------
(* Initial state: a processing object fresh from the host. *)

NoProcessed == [images |-> <<>>, infotexts |-> <<>>, index_of_first_image |-> 0,
                aliased |-> FALSE]

NoCall == [op |-> "init", active |-> FALSE, result |-> "none", index |-> -1,
           slot |-> -1, target |-> None, prev |-> None, loads |-> <<>>,
           batch_number |-> -1, slot_failed |-> FALSE, given |-> NoProcessed]

\* the attributes of a processing object that the script reads or writes
NewProcessing ==
    [n_iter |-> 1, do_not_save_grid |-> FALSE, override_settings |-> EmptyDict]

Init ==
    /\ checkpoints_list \in Registries
    /\ args \in [enabled : BOOLEAN, folder : Folders, quantity : 1..MaxQuantity]
    /\ p = NewProcessing
    /\ sd_model \in {checkpoints_list[i] : i \in 1..Len(checkpoints_list)}
    /\ opts_data = [sd_model_checkpoint |-> CkptTitle(sd_model)]
    /\ current_image = 0
    /\ processed = NoProcessed
    /\ phase = "new"
    /\ last = NoCall
    /\ hist = [setup_init |-> FALSE, start |-> -1, calls |-> 0,
               load_failed |-> FALSE, run_targets |-> <<>>, failed_slots |-> {},
               reg_at_setup |-> <<>>, reg_at_process |-> <<>>,
               passed |-> <<>>, made |-> 0, rescans |-> 0]

----------------------------------------------------------------------------
(* setup, lines 75-90 *)

\* a setup that forgets the quantity
SetupNIterWithoutQuantity(quantity, checkpoints_to_run) == Len(checkpoints_to_run)

\* line 85
SetupNIter(quantity, checkpoints_to_run) == quantity * Len(checkpoints_to_run)

\* the processing object when setup returns
SetupResult(pp, enabled, folder, quantity) ==
    IF ~enabled \/ folder = <<>> THEN pp
    ELSE LET checkpoints_to_run == GetCheckpointsInFolder(folder) IN
         IF checkpoints_to_run = <<>> THEN pp
         ELSE LET p1 == SetAttr(pp, "n_iter", SetupNIter(quantity, checkpoints_to_run))
              IN SetAttr(p1, "forge_iterator_current_index", 0)

Setup ==
    /\ phase = "new"
    /\ p' = SetupResult(p, args.enabled, args.folder, args.quantity)
    /\ phase' = "set"
    /\ last' = [NoCall EXCEPT !.op = "setup",
                              !.active = HasAttr(p', "forge_iterator_current_index")]
    /\ hist' = [hist EXCEPT !.setup_init = HasAttr(p', "forge_iterator_current_index"),
                            !.reg_at_setup = checkpoints_list]
    /\ UNCHANGED <<checkpoints_list, args, sd_model, opts_data, current_image, processed>>

----------------------------------------------------------------------------
(* process, lines 92-118 *)

\* lines 113-114
ResetCollected(pp) ==
    SetAttr(SetAttr(pp, "forge_iterator_all_images", <<>>),
            "forge_iterator_all_infotexts", <<>>)

\* the processing object when process returns
ProcessResult(pp, enabled, folder, quantity) ==
    IF ~enabled \/ folder = <<>> THEN pp
    ELSE LET checkpoints_to_run == GetCheckpointsInFolder(folder) IN
         IF checkpoints_to_run = <<>> THEN pp
         ELSE LET p1 == SetAttr(pp, "forge_iterator_checkpoints", checkpoints_to_run)
                  p2 == SetAttr(p1, "forge_iterator_quantity", quantity)
                  p3 == SetAttr(p2, "do_not_save_grid", TRUE)
                  p4 == ResetCollected(p3)
                  first_ckpt == checkpoints_to_run[1]
              IN SetAttr(p4, "override_settings",
                         SetAttr(p4.override_settings, "sd_model_checkpoint",
                                 CkptTitle(first_ckpt)))

Process ==
    /\ phase \in {"set", "run"}
    /\ \E r \in {ProcessResult(p, args.enabled, args.folder, args.quantity)} :
       LET active == /\ args.enabled
                     /\ args.folder # <<>>
                     /\ GetCheckpointsInFolder(args.folder) # <<>>
       IN /\ p' = r
          /\ last' = [NoCall EXCEPT !.op = "process", !.active = active]
          /\ hist' = IF active
                     THEN [hist EXCEPT !.run_targets = <<>>, !.failed_slots = {},
                                       !.reg_at_process = checkpoints_list,
                                       !.passed = <<>>]
                     ELSE hist
          \* line 113 binds a new list: processed.images no longer is that list
          /\ processed' = IF active THEN [processed EXCEPT !.aliased = FALSE]
                          ELSE processed
    /\ phase' = "run"
    /\ UNCHANGED <<checkpoints_list, args, sd_model, opts_data, current_image>>

----------------------------------------------------------------------------
(* process_batch, lines 120-198 *)

\* an index that follows the host's batch_number on every call
StartIndexFromHost(pp, batch_number) ==
    SetAttr(pp, "forge_iterator_current_index", batch_number)

\* lines 124-125: the host's batch_number starts the index when it is missing
StartIndex(pp, batch_number) ==
    IF HasAttr(pp, "forge_iterator_current_index") THEN pp
    ELSE SetAttr(pp, "forge_iterator_current_index", batch_number)

\* line 128
AdvanceIndex(pp) ==
    SetAttr(pp, "forge_iterator_current_index", pp.forge_iterator_current_index + 1)

\* a slot that ignores the iterations per checkpoint
CkptIndexIgnoringQuantity(current_index, qty_per_ckpt) == current_index

\* line 137
CkptIndex(current_index, qty_per_ckpt) == current_index \div qty_per_ckpt

\* a safety check that is off by one
PastEndOffByOne(ckpt_index, checkpoints_to_run) == ckpt_index > Len(checkpoints_to_run)

\* line 140: the safety check
PastEnd(ckpt_index, checkpoints_to_run) == ckpt_index >= Len(checkpoints_to_run)

\* line 150
NeedsSwap(current_ckpt_info, target_ckpt) ==
    CkptTitle(current_ckpt_info) # CkptTitle(target_ckpt)

\* a fallback that leaves the failed checkpoint in the rotation
ReplaceNothing(pp, ckpt_index, current_ckpt_info) == pp

\* line 184: the slot of the failed checkpoint takes the previous checkpoint
ReplaceInRotation(pp, ckpt_index, current_ckpt_info) ==
    SetAttr(pp, "forge_iterator_checkpoints",
            [pp.forge_iterator_checkpoints EXCEPT ![ckpt_index + 1] = current_ckpt_info])

\* p.override_settings['sd_model_checkpoint'] = title
SetOverride(pp, title) ==
    SetAttr(pp, "override_settings",
            SetAttr(pp.override_settings, "sd_model_checkpoint", title))

\* a fallback that updates shared.opts.data and forgets p.override_settings
FallbackSettingsOptsOnly(pp, opts, model) ==
    IF model # None
    THEN [p |-> pp, opts |-> SetAttr(opts, "sd_model_checkpoint", CkptTitle(model))]
    ELSE [p |-> pp, opts |-> opts]

\* lines 188-191: the settings follow p.sd_model when there is one
FallbackSettings(pp, opts, model) ==
    IF PSdModel(model) # None
    THEN [p |-> SetOverride(pp, CkptTitle(PSdModel(model))),
          opts |-> SetAttr(opts, "sd_model_checkpoint", CkptTitle(PSdModel(model)))]
    ELSE [p |-> pp, opts |-> opts]

\* lines 195-198
SwapSettings(pp, opts, target_ckpt) ==
    [p |-> SetOverride(pp, CkptTitle(target_ckpt)),
     opts |-> SetAttr(opts, "sd_model_checkpoint", CkptTitle(target_ckpt))]

\* line 143: list[i] raises IndexError unless the list has position i
\* (positions count from 0 in the code and from 1 here)
InList(list, i) == (i + 1) \in DOMAIN list

\* What one call of process_batch does to (p, shared.sd_model, shared.opts.data)
\* given the outcomes o1 of the target load and o2 of the fallback reload.
\* result: "inactive" (line 122), "past_end" (line 141), "raised" (line 143
\* indexes past the list, or line 148 reads an attribute of None; neither is
\* inside a try), "kept" (no swap needed), "swapped",
\* "fell_back" (the fallback reload succeeded), "fallback_failed".
BatchResult(pp, model, opts, enabled, folder, batch_number, o1, o2) ==
    LET same == [p |-> pp, model |-> model, opts |-> opts, index |-> -1,
                 slot |-> -1, target |-> None, loads |-> <<>>]
    IN
    IF ~enabled \/ folder = <<>> \/ ~HasAttr(pp, "forge_iterator_checkpoints")
    THEN same @@ [result |-> "inactive"]
    ELSE
    LET p1 == StartIndex(pp, batch_number)
        current_index == p1.forge_iterator_current_index
        p2 == AdvanceIndex(p1)
        checkpoints_to_run == p2.forge_iterator_checkpoints
        qty_per_ckpt == p2.forge_iterator_quantity
        ckpt_index == CkptIndex(current_index, qty_per_ckpt)
        seen == [same EXCEPT !.p = p2, !.index = current_index, !.slot = ckpt_index]
    IN
    IF PastEnd(ckpt_index, checkpoints_to_run)
    THEN seen @@ [result |-> "past_end"]
    ELSE
    IF ~InList(checkpoints_to_run, ckpt_index)
    THEN seen @@ [result |-> "raised"]
    ELSE
    LET target_ckpt == checkpoints_to_run[ckpt_index + 1]
        aimed == [seen EXCEPT !.target = target_ckpt]
    IN
    IF model = None
    THEN aimed @@ [result |-> "raised"]
    ELSE
    LET current_ckpt_info == model IN
    IF ~NeedsSwap(current_ckpt_info, target_ckpt)
    THEN aimed @@ [result |-> "kept"]
    ELSE
    LET m1 == Reload(model, target_ckpt, o1) IN
    IF o1 = "ok"
    THEN LET s == SwapSettings(p2, opts, target_ckpt) IN
         [aimed EXCEPT !.p = s.p, !.model = m1, !.opts = s.opts,
                       !.loads = << <<target_ckpt, o1>> >>]
         @@ [result |-> "swapped"]
    ELSE
    LET m2 == Reload(m1, current_ckpt_info, o2)
        p3 == ReplaceInRotation(p2, ckpt_index, current_ckpt_info)
        s  == FallbackSettings(p3, opts, m2)
    IN [aimed EXCEPT !.p = s.p, !.model = m2, !.opts = s.opts,
                     !.loads = << <<target_ckpt, o1>>, <<current_ckpt_info, o2>> >>]
       @@ [result |-> IF o2 = "ok" THEN "fell_back" ELSE "fallback_failed"]

ProcessBatch(batch_number, o1, o2) ==
    /\ phase = "run"
    /\ hist.calls < MaxCalls
    /\ \E r \in {BatchResult(p, sd_model, opts_data, args.enabled, args.folder,
                              batch_number, o1, o2)} :
       LET active == r.result # "inactive"
           failed == r.result \in {"fell_back", "fallback_failed"}
       IN /\ p' = r.p
          /\ sd_model' = r.model
          /\ opts_data' = r.opts
          /\ last' = [NoCall EXCEPT !.op = "process_batch", !.active = active,
                                    !.result = r.result, !.index = r.index,
                                    !.slot = r.slot, !.target = r.target,
                                    !.prev = sd_model, !.loads = r.loads,
                                    !.batch_number = batch_number,
                                    !.slot_failed = r.slot \in hist.failed_slots]
          /\ hist' = [hist EXCEPT
                 !.calls = IF active THEN @ + 1 ELSE @,
                 !.start = IF active /\ hist.calls = 0 /\ ~hist.setup_init
                           THEN batch_number ELSE @,
                 !.load_failed = @ \/ failed,
                 !.run_targets = IF r.loads # <<>> THEN Append(@, r.target) ELSE @,
                 !.failed_slots = IF failed THEN @ \cup {r.slot} ELSE @]
    /\ UNCHANGED <<checkpoints_list, args, current_image, processed, phase>>

----------------------------------------------------------------------------
(* postprocess_image, lines 200-208 *)

\* line 203
Collect(all_images, image) == Append(all_images, image)

\* the processing object when postprocess_image returns
PostprocessImageResult(pp, image) ==
    IF HasAttr(pp, "forge_iterator_all_images")
    THEN SetAttr(pp, "forge_iterator_all_images",
                 Collect(pp.forge_iterator_all_images, image))
    ELSE pp

\* the host hands over the images it makes one by one: image n is the n-th
PostprocessImage ==
    /\ phase = "run"
    /\ hist.made < MaxImages
    /\ LET image == hist.made + 1 IN
       /\ p' = PostprocessImageResult(p, image)
       \* line 217 made processed.images and the collected list one list
       /\ processed' = IF processed.aliased /\ HasAttr(p, "forge_iterator_all_images")
                       THEN [processed EXCEPT !.images = Collect(@, image)]
                       ELSE processed
       /\ current_image' = image
       /\ last' = [NoCall EXCEPT !.op = "postprocess_image",
                                 !.active = HasAttr(p, "forge_iterator_all_images")]
       /\ hist' = [hist EXCEPT !.made = image, !.passed = Append(@, image)]
    /\ UNCHANGED <<checkpoints_list, args, sd_model, opts_data, phase>>

----------------------------------------------------------------------------
(* postprocess, lines 210-225 *)

GridImage == 0

\* lines 220-222
PadInfotexts(infotexts, images) ==
    IF Len(infotexts) < Len(images)
    THEN infotexts \o [i \in 1..(Len(images) - Len(infotexts)) |->
                          IF infotexts # <<>> THEN infotexts[1] ELSE ""]
    ELSE infotexts

\* a comparison that also replaces a list of equal length
NotMoreThanCollected(images, all_images) == Len(images) <= Len(all_images)

\* line 216
FewerThanCollected(images, all_images) == Len(images) < Len(all_images)

\* the Processed object when postprocess returns
PostprocessResult(pp, given) ==
    IF HasAttr(pp, "forge_iterator_all_images") /\ pp.forge_iterator_all_images # <<>>
    THEN IF FewerThanCollected(given.images, pp.forge_iterator_all_images)
         THEN [images |-> pp.forge_iterator_all_images,
               infotexts |-> PadInfotexts(given.infotexts, pp.forge_iterator_all_images),
               index_of_first_image |-> 0,
               aliased |-> TRUE]
         ELSE given
    ELSE given

\* the Processed objects the host builds: an optional grid at index 0, then
\* the first n images it made, with one infotext per image or none at all
HostProcessed(grid, n, with_infotexts) ==
    LET images == (IF grid THEN <<GridImage>> ELSE <<>>) \o [i \in 1..n |-> i] IN
    [images |-> images,
     infotexts |-> IF with_infotexts THEN [i \in 1..Len(images) |-> "infotext"] ELSE <<>>,
     index_of_first_image |-> IF grid THEN 1 ELSE 0,
     aliased |-> FALSE]

Postprocess(grid, n, with_infotexts) ==
    /\ phase = "run"
    /\ n <= hist.made
    /\ LET given == HostProcessed(grid, n, with_infotexts) IN
       /\ processed' = PostprocessResult(p, given)
       /\ last' = [NoCall EXCEPT !.op = "postprocess", !.given = given,
                      !.active = processed' # given]
    /\ UNCHANGED <<checkpoints_list, args, p, sd_model, opts_data, current_image,
                   phase, hist>>

----------------------------------------------------------------------------
(* The host rescans the model directory (sd_models.list_models). *)

ListModels(registry) ==
    /\ hist.rescans < MaxRescans
    /\ registry # checkpoints_list
    /\ checkpoints_list' = registry
    /\ last' = [NoCall EXCEPT !.op = "list_models"]
    /\ hist' = [hist EXCEPT !.rescans = @ + 1]
    /\ UNCHANGED <<args, p, sd_model, opts_data, current_image, processed, phase>>

----------------------------------------------------------------------------

Next ==
    \/ Setup
    \/ Process
    \/ \E batch_number \in 0..MaxBatchNumber, o1, o2 \in ReloadOutcomes :
          ProcessBatch(batch_number, o1, o2)
    \/ PostprocessImage
    \/ \E grid, with_infotexts \in BOOLEAN, n \in 0..MaxImages :
          Postprocess(grid, n, with_infotexts)
    \/ \E registry \in Registries : ListModels(registry)

Spec == Init /\ [][Next]_vars

(***************************************************************************)
(* process_batch reads and writes the index, the plan, the loaded model    *)
(* and the settings; postprocess_image and postprocess read and write the  *)
(* collected list and the Processed object. Neither pair touches what the  *)
(* other reads, so the two halves are explored apart: SpecIterate for the  *)
(* checkpoint rotation, SpecCollect for the collection of results.         *)
(***************************************************************************)

NextIterate ==
    \/ Setup
    \/ Process
    \/ \E batch_number \in 0..MaxBatchNumber, o1, o2 \in ReloadOutcomes :
          ProcessBatch(batch_number, o1, o2)
    \/ \E registry \in Registries : ListModels(registry)

SpecIterate == Init /\ [][NextIterate]_vars

NextCollect ==
    \/ Setup
    \/ Process
    \/ PostprocessImage
    \/ \E grid, with_infotexts \in BOOLEAN, n \in 0..MaxImages :
          Postprocess(grid, n, with_infotexts)
    \/ \E registry \in Registries : ListModels(registry)

SpecCollect == Init /\ [][NextCollect]_vars

----------------------------------------------------------------------------
(* Vocabulary of the properties. *)

Plan == p.forge_iterator_checkpoints

Override == p.override_settings

\* the checkpoints of a registry that lie in the folder
FolderSet(registry, folder) ==
    {registry[i] : i \in {j \in 1..Len(registry) : InFolder(registry[j], folder)}}

\* no checkpoint of the list has a name below that of an earlier one
NameSorted(list) ==
    \A i, j \in 1..Len(list) : i < j => ~StrLess(CkptName(list[j]), CkptName(list[i]))

\* the list holds each checkpoint of the set once, and nothing else
ListsExactly(list, set) ==
    /\ {list[i] : i \in 1..Len(list)} = set
    /\ Len(list) = Cardinality(set)

NoDuplicates(list) == \A i, j \in 1..Len(list) : i # j => list[i] # list[j]

\* the index the first active process_batch call starts from
StartOfIndex == IF hist.setup_init THEN 0 ELSE hist.start

ActiveBatch == last.op = "process_batch" /\ last.active

----------------------------------------------------------------------------
(* Properties. *)

\* C1: after setup and process ran enabled on a folder of N >= 1 checkpoints
\* and while every load succeeds, the (k+1)-th process_batch call, for k below
\* quantity * N, leaves loaded the checkpoint at position k \div quantity of
\* the name-sorted list of the folder's checkpoints.
C1_RotationInSortedOrder ==
    (/\ ActiveBatch
     /\ hist.setup_init
     /\ ~hist.load_failed
     /\ hist.calls <= args.quantity * Len(Plan))
    => /\ NameSorted(Plan)
       /\ ListsExactly(Plan, FolderSet(hist.reg_at_process, args.folder))
       /\ sd_model = Plan[((hist.calls - 1) \div args.quantity) + 1]

C1_Witness ==
    /\ ActiveBatch
    /\ hist.setup_init
    /\ ~hist.load_failed
    /\ args.quantity = 2
    /\ Len(Plan) = 2
    /\ hist.calls = 4
    /\ Len(hist.run_targets) = 2

\* C2: setup sets p.n_iter to quantity * N and the index to 0 when the plugin
\* is enabled, a folder is chosen and the folder holds N >= 1 checkpoints, and
\* leaves p as it was otherwise; with the registry unchanged since, n_iter is
\* quantity times the length of the plan that process stores.
C2_SetupPrecomputesIterations ==
    /\ last.op = "setup" =>
          LET N == Cardinality(FolderSet(checkpoints_list, args.folder)) IN
          IF args.enabled /\ args.folder # <<>> /\ N >= 1
          THEN /\ p.n_iter = args.quantity * N
               /\ p.forge_iterator_current_index = 0
          ELSE p = NewProcessing
    /\ (/\ last.op = "process"
        /\ last.active
        /\ hist.setup_init
        /\ hist.reg_at_setup = checkpoints_list)
       => p.n_iter = args.quantity * Len(Plan)

C2_Witness ==
    /\ last.op = "process"
    /\ last.active
    /\ hist.setup_init
    /\ hist.reg_at_setup = checkpoints_list
    /\ args.quantity = 2
    /\ p.n_iter = 6

\* C8: the index is the plugin's own count: it is the starting index plus the
\* number of active process_batch calls, the starting index is 0 once setup
\* initialised it and the host's batch_number of the first active call
\* otherwise, and each active call selects the slot of its own count whatever
\* batch_number it is given.
C8_IndexTrackedByPlugin ==
    /\ HasAttr(p, "forge_iterator_current_index")
          => p.forge_iterator_current_index = StartOfIndex + hist.calls
    /\ ~HasAttr(p, "forge_iterator_current_index") => hist.calls = 0
    /\ ActiveBatch =>
          /\ last.index = StartOfIndex + hist.calls - 1
          /\ last.slot = (StartOfIndex + hist.calls - 1) \div args.quantity
          /\ hist.setup_init => last.slot = (hist.calls - 1) \div args.quantity

C8_Witness ==
    /\ ActiveBatch
    /\ hist.setup_init
    /\ hist.calls = 3
    /\ last.batch_number = 0
    /\ last.result = "fell_back"
    /\ last.slot = 1

\* C3: when the load of the target checkpoint fails and the reload of the
\* previously loaded checkpoint succeeds, the call returns with the previous
\* checkpoint loaded, with p.override_settings and shared.opts.data naming
\* its title, and with the previous checkpoint in the failed checkpoint's slot.
C3_RecoveryFromFailedLoad ==
    (/\ ActiveBatch
     /\ Len(last.loads) = 2
     /\ last.loads[1] = <<last.target, last.loads[1][2]>>
     /\ last.loads[1][2] # "ok"
     /\ last.loads[2] = <<last.prev, "ok">>)
    => /\ last.result = "fell_back"
       /\ sd_model = last.prev
       /\ Override["sd_model_checkpoint"] = CkptTitle(last.prev)
       /\ opts_data["sd_model_checkpoint"] = CkptTitle(last.prev)
       /\ Plan[last.slot + 1] = last.prev

C3_Witness ==
    /\ ActiveBatch
    /\ last.result = "fell_back"
    /\ last.loads[1][2] = "raise_none"
    /\ last.slot = 1
    /\ sd_model = last.prev
    /\ last.target # last.prev

C6_SettingsFollowLoadedModel ==
    (ActiveBatch /\ last.result # "raised")
    => /\ sd_model # None
       /\ HasAttr(Override, "sd_model_checkpoint")
       /\ Override["sd_model_checkpoint"] = CkptTitle(sd_model)

\* C7: every process_batch call returns to the host without raising,
\* whatever the outcomes of the loads before it.
C7_BatchNeverRaises ==
    last.op = "process_batch" => last.result # "raised"

\* C9: an active call either uses a slot inside the plan, or, when its index
\* is quantity * len(plan) or more, loads nothing and changes nothing but the
\* index, which it advances by one.
C9_PlanAccessInBounds ==
    [][ (last'.op = "process_batch" /\ last'.active) =>
          IF last'.index >= args.quantity * Len(Plan)
          THEN /\ last'.result = "past_end"
               /\ last'.loads = <<>>
               /\ sd_model' = sd_model
               /\ opts_data' = opts_data
               /\ p' = SetAttr(p, "forge_iterator_current_index", last'.index + 1)
          ELSE /\ last'.slot \in 0..(Len(Plan) - 1)
               /\ last'.result # "past_end"
      ]_vars

C9_Witness ==
    /\ ActiveBatch
    /\ last.result = "past_end"
    /\ last.index = args.quantity * Len(Plan)
    /\ Len(Plan) = 2

\* C4: the collected list is the images passed to postprocess_image since
\* process, in order; postprocess, when processed.images is shorter than the
\* collected list, makes processed.images the collected list and
\* index_of_first_image 0, and otherwise leaves processed as it was given.
C4_ResultsCollected ==
    /\ HasAttr(p, "forge_iterator_all_images")
          => p.forge_iterator_all_images = hist.passed
    /\ last.op = "postprocess" =>
          IF /\ HasAttr(p, "forge_iterator_all_images")
             /\ Len(last.given.images) < Len(hist.passed)
          THEN /\ processed.images = hist.passed
               /\ processed.index_of_first_image = 0
          ELSE processed = last.given

C4_Witness ==
    /\ last.op = "postprocess"
    /\ HasAttr(p, "forge_iterator_all_images")
    /\ hist.passed = <<1, 2>>
    /\ last.given.images = <<GridImage>>
    /\ processed.images = <<1, 2>>

====
